---- MODULE Spec2Model ----
(***************************************************************************)
(* Model of the TreeContext of grep-ast (package grepast): the span index  *)
(* built by NewTreeContext / walkTree / postWalkProcessing, the context    *)
(* selector (AddLinesOfInterest, AddContext, addParentScopes,              *)
(* addChildContext, closeSmallGaps) and the renderer (Format).             *)
(*                                                                         *)
(* A parsed file is a sequence of named syntax nodes in pre-order, each a   *)
(* record [s |-> start row, e |-> end row, p |-> parent node, 0 for the    *)
(* root]; lines are 0-based.  Go map iteration order and the order         *)
(* sort.Slice leaves equal keys in are nondeterministic choices of the     *)
(* actions.                                                                *)
(***************************************************************************)
EXTENDS Integers, Sequences, FiniteSets, TLC

\* ------------------------------------------------------------------ bounds
\* number of lines of the files of the small scenarios
NumLines == 5
\* number of lines of the files of the child-context scenarios
BigLines == 8
\* largest number of lines of interest of one TreeContext
MaxLoi == 2
\* largest number of AddContext calls on one TreeContext
MaxCtxCalls == 2
\* largest number of multi-line nodes below the root of a small file
MaxScopes == 3

\* width of the unsigned row arithmetic of sortNodesBySize, scaled to the
\* integers of the model checker (the source uses a 64-bit uint)
UintMod == 2^30

VARIABLES
  filename,         \* the file name NewTreeContext was called with
  err,              \* the error NewTreeContext returned, "nil" for none
  tree,             \* the parse tree: named nodes in pre-order, [s, e, p]
  numLines,         \* tc.numLines = len(tc.lines)
  blank,            \* lines i with strings.TrimSpace(tc.lines[i]) == ""
  opt,              \* the TreeContextOptions the context was built with
  nodes,            \* tc.nodes: line -> sequence of node ids starting there
  scopes,           \* tc.scopes: line -> set of scope start lines
  header,           \* tc.header: line -> <<headStart, headEnd>>
  linesOfInterest,  \* tc.linesOfInterest
  showLines,        \* tc.showLines
  doneParentScopes, \* tc.doneParentScopes
  fault,            \* TRUE once a call has panicked
  outputLines,      \* tc.outputLines: line -> highlighted variant
  out,              \* the text the last call returned, when it was Format
  hist              \* call history: ctx, the number of AddContext calls;
                    \* same, no LOI was added since the last AddContext;
                    \* fmt, the last call was Format; log, the
                    \* addChildContext calls of the last AddContext; pre,
                    \* the show-set its closeSmallGaps call was given

vars == <<filename, err, tree, numLines, blank, opt, nodes, scopes, header, linesOfInterest,
          showLines, doneParentScopes, outputLines, fault, out, hist>>

\* ------------------------------------------------------------ pure helpers
Lines(n) == 0 .. (n - 1)

\* mapKeysSorted: the keys of a map[int]struct{} in ascending order
RECURSIVE mapKeysSorted(_)
mapKeysSorted(m) ==
  IF m = {} THEN <<>>
  ELSE LET k == CHOOSE x \in m : \A y \in m : x <= y
       IN <<k>> \o mapKeysSorted(m \ {k})

\* ------------------------------------------------------------ the span index
\* the named children of node k, in order: the nodes whose parent p is k
NamedChildren(t, k) == {j \in (k + 1) .. Len(t) : t[j].p = k}

\* walkTree visits one node: append it to nodes[startLine], store
\* [size, startLine, endLine] in header[startLine] when size > 0, and add
\* startLine to the scopes of every line of the span
walkNode(ix, t, k, n) ==
  LET startLine == t[k].s
      endLine == t[k].e
      size == endLine - startLine
  IN IF startLine < 0 \/ startLine >= n THEN ix
     ELSE [nodes  |-> [ix.nodes EXCEPT ![startLine] = Append(@, k)],
           header |-> IF size > 0
                      THEN [ix.header EXCEPT
                              ![startLine] = <<size, startLine, endLine>>]
                      ELSE ix.header,
           scopes |-> [i \in Lines(n) |->
                         IF startLine <= i /\ i <= endLine
                         THEN ix.scopes[i] \cup {startLine}
                         ELSE ix.scopes[i]]]

\* walkTree: pre-order traversal of the named nodes; the sequence t is the
\* pre-order, so the recursion into the children is the step to k + 1
RECURSIVE walkTree(_, _, _, _)
walkTree(ix, t, k, n) ==
  IF k > Len(t) THEN ix
  ELSE walkTree(walkNode(ix, t, k, n), t, k + 1, n)

\* postWalkProcessing clamping to the absolute value of headerMax
postWalkProcessing_absHeaderMax(hdr, n, headerMax) ==
  [i \in Lines(n) |->
     LET headerSlice == hdr[i]
         bound == IF headerMax < 0 THEN -headerMax ELSE headerMax
     IN IF Len(headerSlice) < 2 THEN <<i, i + 1>>
        ELSE <<headerSlice[2],
               IF headerSlice[1] > bound THEN headerSlice[2] + bound
               ELSE IF Len(headerSlice) > 2 THEN headerSlice[3]
               ELSE headerSlice[2] + 1>>]

\* postWalkProcessing without the clamp of a window to headerMax lines
postWalkProcessing_noClamp(hdr, n, headerMax) ==
  [i \in Lines(n) |->
     LET headerSlice == hdr[i]
     IN IF Len(headerSlice) < 2 THEN <<i, i + 1>>
        ELSE <<headerSlice[2],
               IF Len(headerSlice) > 2 THEN headerSlice[3]
               ELSE headerSlice[2] + 1>>]

\* the header ranges postWalkProcessing leaves in tc.header
postWalkProcessing(hdr, n, headerMax) ==
  [i \in Lines(n) |->
     LET headerSlice == hdr[i]
     IN IF Len(headerSlice) < 2 THEN <<i, i + 1>>
        ELSE LET size == headerSlice[1]
                 headStart == headerSlice[2]
                 headEnd0 == IF Len(headerSlice) > 2
                             THEN headerSlice[3] ELSE headerSlice[2] + 1
                 headEnd == IF size > headerMax
                            THEN headStart + headerMax ELSE headEnd0
             IN <<headStart, headEnd>>]

\* the part of NewTreeContext after the parse: the tables before the walk,
\* the walk, the post-processing
indexTables(t, n, headerMax) ==
  LET empty == [nodes  |-> [i \in Lines(n) |-> <<>>],
                header |-> [i \in Lines(n) |-> <<0, 0>>],
                scopes |-> [i \in Lines(n) |-> {}]]
      ix == walkTree(empty, t, 1, n)
  IN [nodes  |-> ix.nodes,
      scopes |-> ix.scopes,
      header |-> postWalkProcessing(ix.header, n, headerMax)]

\* ------------------------------------------------------------ the language
\* extensionMap: file extension -> language name
extensionMap ==
  {<<".bash", "bash">>, <<".cc", "cpp">>, <<".cl", "commonlisp">>,
   <<".c", "c">>, <<".cpp", "cpp">>, <<".cs", "c_sharp">>,
   <<".csm", "scheme">>, <<".css", "css">>, <<".el", "elisp">>,
   <<".ex", "elixir">>, <<".elm", "elm">>, <<".et", "embedded_template">>,
   <<".erl", "erlang">>, <<".gomod", "gomod">>, <<".go", "go">>,
   <<".hack", "hack">>, <<".hcl", "hcl">>, <<".hs", "haskell">>,
   <<".html", "html">>, <<".java", "java">>, <<".jl", "julia">>,
   <<".js", "javascript">>, <<".json", "json">>, <<".jsx", "javascript">>,
   <<".kt", "kotlin">>, <<".lua", "lua">>, <<".mjs", "javascript">>,
   <<".mk", "make">>, <<".ml", "ocaml">>, <<".m", "objc">>,
   <<".php", "php">>, <<".pl", "perl">>, <<".py", "python">>,
   <<".ql", "ql">>, <<".r", "r">>, <<".regex", "regex">>,
   <<".rst", "rst">>, <<".rb", "ruby">>, <<".rs", "rust">>,
   <<".scala", "scala">>, <<".sql", "sql">>, <<".sqlite", "sqlite">>,
   <<".toml", "toml">>, <<".ts", "typescript">>, <<".tsx", "typescript">>,
   <<".yaml", "yaml">>}

\* the languages the switch of GetLanguageFromFileName has a grammar for
Grammars ==
  {"bash", "c_sharp", "css", "go", "java", "javascript", "html", "python",
   "typescript", "rust"}

\* strings.ToLower on the base names and extensions of the file names used
ToLower(s) ==
  CASE s = "Dockerfile" -> "dockerfile"
    [] s = "DOCKERFILE" -> "dockerfile"
    [] s = "Style.CSS" -> "style.css"
    [] s = ".CSS" -> ".css"
    [] s = "Makefile" -> "makefile"
    [] OTHER -> s

\* GetLanguageFromFileName(path), the path given as its filepath.Base and
\* filepath.Ext: the language handle ("nil": none), the language name and
\* the error ("nil": none)
GetLanguageFromFileName(path) ==
  IF ToLower(path.base) = ToLower("Dockerfile")
  THEN [lang |-> "nil", name |-> "Dockerfile", err |-> "nil"]
  ELSE LET ext == ToLower(path.ext)
           found == {p \in extensionMap : p[1] = ext}
       IN IF found # {}
          THEN LET lang == (CHOOSE p \in found : TRUE)[2]
               IN IF lang \in Grammars
                  THEN [lang |-> lang, name |-> lang, err |-> "nil"]
                  ELSE [lang |-> "nil", name |-> "",
                        err |-> "ErrorUnsupportedLanguage"]
          ELSE [lang |-> "nil", name |-> "",
                err |-> "ErrorUnrecognizedFiletype"]

\* what NewTreeContext returns with a nil *TreeContext: no table exists
nilContext(e) ==
  [err |-> e, nodes |-> <<>>, scopes |-> <<>>, header |-> <<>>]

\* NewTreeContext without the test of a nil language handle
NewTreeContext_noNilCheck(path, f, o) ==
  LET l == GetLanguageFromFileName(path)
  IN IF l.err # "nil" THEN nilContext(l.err)
     ELSE LET ix == indexTables(f.tree, f.n, o.headerMax)
          IN [err |-> "nil", nodes |-> ix.nodes, scopes |-> ix.scopes,
              header |-> ix.header]

\* NewTreeContext(filename, source, options), the source given as the file f
\* the parser makes of it: the error of the language lookup, an error for a
\* nil language handle, else the context with its tables
NewTreeContext(path, f, o) ==
  LET l == GetLanguageFromFileName(path)
  IN IF l.err # "nil" THEN nilContext(l.err)
     ELSE IF l.lang = "nil"
     THEN nilContext("unrecognized or unsupported file type")
     ELSE LET ix == indexTables(f.tree, f.n, o.headerMax)
          IN [err |-> "nil", nodes |-> ix.nodes, scopes |-> ix.scopes,
              header |-> ix.header]

\* ------------------------------------------------------------ scope lookups
\* the backward scan shared by getScopeBoundry and getLastLineOfScope: from
\* startLine down to 0, the first node (in nodes[startLine] order) whose span
\* contains i and ends after i; 0 when the scan finds none
RECURSIVE scanBack(_, _)
scanBack(i, startLine) ==
  IF startLine < 0 THEN 0
  ELSE LET hits == {p \in 1 .. Len(nodes[startLine]) :
                      LET nd == tree[nodes[startLine][p]]
                      IN i >= nd.s /\ i <= nd.e /\ nd.e > i}
       IN IF hits # {}
          THEN nodes[startLine][CHOOSE p \in hits : \A q \in hits : p <= q]
          ELSE scanBack(i, startLine - 1)

\* getScopeBoundry(i): the span the scan returns, (i, i) when there is none
getScopeBoundry(i) ==
  IF i < 0 \/ i >= numLines THEN [start |-> i, end |-> i]
  ELSE IF Len(nodes[i]) = 0 THEN [start |-> i, end |-> i]
  ELSE LET k == scanBack(i, i)
       IN IF k = 0 THEN [start |-> i, end |-> i]
          ELSE [start |-> tree[k].s, end |-> tree[k].e]

\* getLastLineOfScope(i): the end line the scan returns, i when there is none
getLastLineOfScope(i) ==
  IF i < 0 \/ i >= numLines THEN i
  ELSE IF Len(nodes[i]) = 0 THEN i
  ELSE LET k == scanBack(i, i)
       IN IF k = 0 THEN i ELSE tree[k].e

\* ------------------------------------------------------------ parent scopes
\* the lines one iteration of the loop of addParentScopes adds for the scope
\* start lineNum: nothing when the header starts on line 0, else the header
\* window and, unless the scope ends on lineNum, the whole scope boundary
scopeLines(lineNum) ==
  LET headStart == header[lineNum][1]
      headEnd == header[lineNum][2]
      lines == getScopeBoundry(lineNum)
  IN IF headStart = 0 THEN {}
     ELSE (IF headStart > 0 \/ opt.showTopOfFileParentScope
           THEN {ln \in headStart .. (headEnd - 1) : ln < numLines}
           ELSE {})
          \cup
          (IF lines.end = lineNum THEN {}
           ELSE {ln \in lines.start .. lines.end : ln < numLines})

\* addParentScopes with the index marked as processed before the test of the
\* processed set: every call returns early
addParentScopes_markedFirst(st, i) ==
  IF i < 0 \/ i >= numLines THEN st
  ELSE [show |-> st.show, done |-> st.done \cup {i}]

\* addParentScopes that does not mark the index as processed
addParentScopes_unmarked(st, i) ==
  IF i < 0 \/ i >= numLines THEN st
  ELSE IF i \in st.done THEN st
  ELSE [show |-> st.show \cup UNION {scopeLines(lineNum) : lineNum \in scopes[i]},
        done |-> st.done]

\* addParentScopes(i) on the selector state st = [show, done]; the loop over
\* tc.scopes[i] only adds lines that depend on lineNum, so its result is the
\* union whatever order the map is iterated in
addParentScopes(st, i) ==
  IF i < 0 \/ i >= numLines THEN st
  ELSE IF i \in st.done THEN st
  ELSE [show |-> st.show \cup UNION {scopeLines(lineNum) : lineNum \in scopes[i]},
        done |-> st.done \cup {i}]

\* ------------------------------------------------------------ child context
\* findAllChildren(k): node k followed by the descendants of its named
\* children, in order
RECURSIVE findAllChildren(_)
RECURSIVE concatChildren(_, _)
findAllChildren(k) == <<k>> \o concatChildren(k, NamedChildren(tree, k))

concatChildren(k, cs) ==
  IF cs = {} THEN <<>>
  ELSE LET c == CHOOSE x \in cs : \A y \in cs : x <= y
       IN findAllChildren(c) \o concatChildren(k, cs \ {c})

\* the children gathered for line i: findAllChildren of every node of nodes[i]
RECURSIVE gatherChildren(_, _)
gatherChildren(i, p) ==
  IF p > Len(nodes[i]) THEN <<>>
  ELSE findAllChildren(nodes[i][p]) \o gatherChildren(i, p + 1)

\* the key sortNodesBySize sorts by: StartPosition().Row - EndPosition().Row
\* in unsigned arithmetic
getSize(k) == (tree[k].s - tree[k].e) % UintMod

\* the orders sort.Slice may leave equal keys in (it is not a stable sort):
\* the order they had in the slice, or the reverse of it
TieOrders == {"kept", "reversed"}

\* sortBySize: less(i, j) is getSize(items[j]) > getSize(items[i]), so the
\* slice ends up in ascending key order; keys[p] is the key of items[p] and
\* todo the set of positions of the items not yet placed
RECURSIVE sortBySize(_, _, _, _)
sortBySize(items, keys, todo, tie) ==
  IF todo = {} THEN <<>>
  ELSE LET least == CHOOSE q \in todo : \A r \in todo : ~(keys[q] > keys[r])
           first == {q \in todo : ~(keys[q] > keys[least])}
           p == IF tie = "kept"
                THEN CHOOSE x \in first : \A y \in first : x <= y
                ELSE CHOOSE x \in first : \A y \in first : x >= y
       IN <<items[p]>> \o sortBySize(items, keys, todo \ {p}, tie)

\* sortNodesBySize(nodes)
sortNodesBySize(items, tie) ==
  sortBySize(items, [p \in 1 .. Len(items) |-> getSize(items[p])],
             1 .. Len(items), tie)

\* the budget of addChildContext: int(float64(size)*0.10 + 0.5) clamped to
\* [minToShow, maxToShow]
computedMax(size) ==
  LET maxToShow == 25
      minToShow == 5
      c == (size * 10 + 50) \div 100
  IN IF c < minToShow THEN minToShow
     ELSE IF c > maxToShow THEN maxToShow ELSE c

\* the loop body without the reveal of the child's own span
revealChild_scopesOnly(st, child) == addParentScopes(st, tree[child].s)

\* one iteration of the loop over the sorted children: reveal the child's
\* span, then addParentScopes(childStart)
revealChild(st, child) ==
  LET childStart == tree[child].s
      childEnd == tree[child].e
  IN addParentScopes(
       [show |-> st.show \cup {ln \in childStart .. childEnd : ln < numLines},
        done |-> st.done], childStart)

\* the loop over the sorted children from position p on: break once more
\* than limit lines are shown
RECURSIVE childLoop(_, _, _, _)
childLoop(st, children, p, limit) ==
  IF p > Len(children) THEN st
  ELSE IF Cardinality(st.show) > limit THEN st
  ELSE childLoop(revealChild(st, children[p]), children, p + 1, limit)

\* addChildContext whose small-scope loop stops one line early
addChildContext_shortLoop(st, i, tie) ==
  IF i < 0 \/ i >= numLines THEN st
  ELSE IF Len(nodes[i]) = 0 THEN st
  ELSE LET lastLine == getLastLineOfScope(i)
           size == lastLine - i
       IN IF size < 0 THEN st
          ELSE IF size < 5
          THEN [show |-> st.show \cup {ln \in i .. (lastLine - 1) : ln < numLines},
                done |-> st.done]
          ELSE LET children == sortNodesBySize(gatherChildren(i, 1), tie)
                   currentlyShowing == Cardinality(st.show)
               IN childLoop(st, children, 1,
                            currentlyShowing + computedMax(size))

\* addChildContext(i), the sort leaving equal keys in the order tie
addChildContext(st, i, tie) ==
  IF i < 0 \/ i >= numLines THEN st
  ELSE IF Len(nodes[i]) = 0 THEN st
  ELSE LET lastLine == getLastLineOfScope(i)
           size == lastLine - i
       IN IF size < 0 THEN st
          ELSE IF size < 5
          THEN [show |-> st.show \cup {ln \in i .. lastLine : ln < numLines},
                done |-> st.done]
          ELSE LET children == sortNodesBySize(gatherChildren(i, 1), tie)
                   currentlyShowing == Cardinality(st.show)
               IN childLoop(st, children, 1,
                            currentlyShowing + computedMax(size))

\* ------------------------------------------------------------ gap closing
\* the loop of closeSmallGaps closing the gaps of two lines as well
RECURSIVE gapLoop_wide(_, _, _)
gapLoop_wide(sortedShow, i, closed) ==
  LET last == Len(sortedShow) - 1
  IN IF ~(i < last) THEN [show |-> closed, fault |-> FALSE]
     ELSE LET curr == sortedShow[i + 1]
              next == sortedShow[i + 2]
          IN IF next - curr = 2 \/ next - curr = 3
             THEN gapLoop_wide(sortedShow, i + 1,
                               closed \cup ((curr + 1) .. (next - 1)))
             ELSE gapLoop_wide(sortedShow, i + 1, closed)

\* the loop of closeSmallGaps from index i on; closed is closedShow.  The
\* read of tc.lines[next] panics when next is not an index of tc.lines.
RECURSIVE gapLoop(_, _, _)
gapLoop(sortedShow, i, closed) ==
  LET last == Len(sortedShow) - 1
  IN IF ~(i < last) THEN [show |-> closed, fault |-> FALSE]
     ELSE LET curr == sortedShow[i + 1]
              next == sortedShow[i + 2]
          IN IF next = last /\ ~(next \in Lines(numLines))
             THEN [show |-> closed, fault |-> TRUE]
             ELSE IF next = last /\ next \in blank
             THEN gapLoop(sortedShow, i + 1, closed)
             ELSE IF next - curr = 2
             THEN gapLoop(sortedShow, i + 1, closed \cup {curr + 1})
             ELSE gapLoop(sortedShow, i + 1, closed)

\* closeSmallGaps on the show-set show: the new show-set, or a panic
closeSmallGaps(show) == gapLoop(mapKeysSorted(show), 0, show)

\* ------------------------------------------------------------ AddContext
\* the padding phase adding only the lines before a shown line
padLines_before(show) ==
  {nl \in Lines(numLines) :
     \E line \in show : line - opt.loiPad <= nl /\ nl <= line}

\* the padding phase without the test that a line is inside the file
padLines_unclamped(show) ==
  {nl \in (-opt.loiPad - 1) .. (numLines + opt.loiPad) :
     \E line \in show : line - opt.loiPad <= nl /\ nl <= line + opt.loiPad}

\* the padding phase: every line within loiPad of a shown line, inside the file
padLines(show) ==
  {nl \in Lines(numLines) :
     \E line \in show : line - opt.loiPad <= nl /\ nl <= line + opt.loiPad}

\* the loop "for i := range tc.linesOfInterest { tc.addParentScopes(i) }",
\* as the set of states it can end in over the orders of the map iteration
RECURSIVE parentPhase(_, _)
parentPhase(st, todo) ==
  IF todo = {} THEN {st}
  ELSE UNION {parentPhase(addParentScopes(st, i), todo \ {i}) : i \in todo}

\* the loop "for i := range tc.linesOfInterest { tc.addChildContext(i) }",
\* as the set of [st, log] it can end in over the orders of the map
\* iteration; log records each call as <<i, lines shown before, after>>
RECURSIVE childPhase(_, _, _, _)
childPhase(st, todo, log, tie) ==
  IF todo = {} THEN {[st |-> st, log |-> log]}
  ELSE UNION {LET r == addChildContext(st, i, tie)
              IN childPhase(r, todo \ {i},
                            log \cup {<<i, Cardinality(st.show),
                                        Cardinality(r.show)>>}, tie) :
                i \in todo}

\* the top margin lines
marginLines ==
  IF opt.margin > 0
  THEN {i \in Lines(numLines) : i < opt.margin}
  ELSE {}

\* the phases of AddContext without the last line
contextPhases_noLastLine(st, loi) ==
  LET seeded == [show |-> st.show \cup loi, done |-> st.done]
      padded == IF opt.loiPad > 0
                THEN [show |-> seeded.show \cup padLines(seeded.show),
                      done |-> seeded.done]
                ELSE seeded
      parents == IF opt.parentContext
                 THEN parentPhase(padded, loi) ELSE {padded}
      childs == IF opt.showChildContext
                THEN UNION {childPhase(p, loi, {}, tie) :
                              p \in parents, tie \in TieOrders}
                ELSE {[st |-> p, log |-> {}] : p \in parents}
  IN {[st |-> [show |-> c.st.show \cup marginLines, done |-> c.st.done],
       log |-> c.log] : c \in childs}

\* the phases of AddContext without the seed of the show-set
contextPhases_noSeed(st, loi) ==
  LET padded == IF opt.loiPad > 0
                THEN [show |-> st.show \cup padLines(st.show), done |-> st.done]
                ELSE st
      bottomLine == numLines - 1
      bottomed == IF opt.showLastLine
                  THEN addParentScopes(
                         [show |-> padded.show \cup {bottomLine},
                          done |-> padded.done], bottomLine)
                  ELSE padded
      parents == IF opt.parentContext
                 THEN parentPhase(bottomed, loi) ELSE {bottomed}
      childs == IF opt.showChildContext
                THEN UNION {childPhase(p, loi, {}, tie) :
                              p \in parents, tie \in TieOrders}
                ELSE {[st |-> p, log |-> {}] : p \in parents}
  IN {[st |-> [show |-> c.st.show \cup marginLines, done |-> c.st.done],
       log |-> c.log] : c \in childs}

\* the phases of AddContext before the gap closing, from the selector state
\* st with the LOI set loi: the set of [st, log] they can end in
contextPhases(st, loi) ==
  LET seeded == [show |-> st.show \cup loi, done |-> st.done]
      padded == IF opt.loiPad > 0
                THEN [show |-> seeded.show \cup padLines(seeded.show),
                      done |-> seeded.done]
                ELSE seeded
      bottomLine == numLines - 1
      bottomed == IF opt.showLastLine
                  THEN addParentScopes(
                         [show |-> padded.show \cup {bottomLine},
                          done |-> padded.done], bottomLine)
                  ELSE padded
      parents == IF opt.parentContext
                 THEN parentPhase(bottomed, loi) ELSE {bottomed}
      childs == IF opt.showChildContext
                THEN UNION {childPhase(p, loi, {}, tie) :
                              p \in parents, tie \in TieOrders}
                ELSE {[st |-> p, log |-> {}] : p \in parents}
  IN {[st |-> [show |-> c.st.show \cup marginLines, done |-> c.st.done],
       log |-> c.log] : c \in childs}

\* AddContext without the early return on an empty LOI set
addContext_noEarlyReturn(st, loi) ==
  {LET closed == closeSmallGaps(c.st.show)
   IN [show |-> IF closed.fault THEN c.st.show ELSE closed.show,
       done |-> c.st.done, fault |-> closed.fault, log |-> c.log,
       pre |-> c.st.show] :
     c \in contextPhases(st, loi)}

\* AddContext() from the selector state st with the LOI set loi, as the set
\* of outcomes [show, done, fault, log, pre]: nothing when there is no line of
\* interest; else the phases and closeSmallGaps, which replaces tc.showLines
\* unless it panics
addContext(st, loi) ==
  IF Cardinality(loi) = 0
  THEN {[show |-> st.show, done |-> st.done, fault |-> FALSE, log |-> {},
         pre |-> st.show]}
  ELSE {LET closed == closeSmallGaps(c.st.show)
        IN [show |-> IF closed.fault THEN c.st.show ELSE closed.show,
            done |-> c.st.done, fault |-> closed.fault, log |-> c.log,
            pre |-> c.st.show] :
          c \in contextPhases(st, loi)}

\* ------------------------------------------------------------ Format
\* the collapsed-range marker Format writes, the same text whatever the
\* options; ":" stands for the vertical ellipsis character
ellipsisItem ==
  [k |-> "marker", ln |-> -1, num |-> 0, sp |-> "", hl |-> 0, text |-> ":..."]

\* the color reset Format writes first when color is on
resetItem == [k |-> "reset", ln |-> -1, num |-> 0, sp |-> "", hl |-> 0]

\* lineOfInterestSpacer(i)
lineOfInterestSpacer(loi, i) ==
  IF i \in loi /\ opt.markLOIs
  THEN (IF opt.color THEN "red-block" ELSE "block")
  ELSE "bar"

\* one shown line: its number (0: no number column), spacer and text, the
\* text being the highlighted variant hl > 0 when outputLines has one
lineItem(loi, hls, i) ==
  [k |-> "line", ln |-> i,
   num |-> IF opt.showLineNumber THEN i + 1 ELSE 0,
   sp |-> lineOfInterestSpacer(loi, i),
   hl |-> IF i \in DOMAIN hls THEN hls[i] ELSE 0]

\* the loop of Format writing a marker for every hidden line: the flag is
\* not cleared
RECURSIVE formatLoop_markerPerLine(_, _, _, _, _)
formatLoop_markerPerLine(show, loi, hls, i, printEllipsis) ==
  IF i >= numLines THEN <<>>
  ELSE IF i \notin show
  THEN (IF printEllipsis
        THEN <<ellipsisItem>>
             \o formatLoop_markerPerLine(show, loi, hls, i + 1, printEllipsis)
        ELSE formatLoop_markerPerLine(show, loi, hls, i + 1, printEllipsis))
  ELSE <<lineItem(loi, hls, i)>>
       \o formatLoop_markerPerLine(show, loi, hls, i + 1, TRUE)

\* the loop of Format over tc.lines from line i on
RECURSIVE formatLoop(_, _, _, _, _)
formatLoop(show, loi, hls, i, printEllipsis) ==
  IF i >= numLines THEN <<>>
  ELSE IF i \notin show
  THEN (IF printEllipsis
        THEN <<ellipsisItem>> \o formatLoop(show, loi, hls, i + 1, FALSE)
        ELSE formatLoop(show, loi, hls, i + 1, printEllipsis))
  ELSE <<lineItem(loi, hls, i)>> \o formatLoop(show, loi, hls, i + 1, TRUE)

\* Format() that starts with the pending-ellipsis flag cleared
FormatText_noLeadingMarker(show, loi, hls) ==
  IF Cardinality(show) = 0 THEN <<>>
  ELSE (IF opt.color THEN <<resetItem>> ELSE <<>>)
       \o formatLoop(show, loi, hls, 0, FALSE)

\* Format(): the text as the sequence of its lines, <<>> the empty string
FormatText(show, loi, hls) ==
  IF Cardinality(show) = 0 THEN <<>>
  ELSE (IF opt.color THEN <<resetItem>> ELSE <<>>)
       \o formatLoop(show, loi, hls, 0, ~(0 \in show))

\* ------------------------------------------------------------ the files
\* the multi-line spans a file of n lines holds below its root: the root
\* starts on line 0, the other multi-line nodes on a later line
Spans(n) == {sp \in Lines(n) \X Lines(n) : 1 <= sp[1] /\ sp[1] < sp[2]}

\* two spans of one tree are nested or disjoint
Laminar(S) ==
  \A a \in S, b \in S :
     \/ a = b
     \/ (a[1] <= b[1] /\ b[2] <= a[2])
     \/ (b[1] <= a[1] /\ a[2] <= b[2])
     \/ a[2] < b[1]
     \/ b[2] < a[1]

\* the pre-order of a set of spans: by start line, the longer span first
RECURSIVE PreOrder(_)
PreOrder(S) ==
  IF S = {} THEN <<>>
  ELSE LET f == CHOOSE a \in S : \A b \in S :
                   a[1] < b[1] \/ (a[1] = b[1] /\ a[2] >= b[2])
       IN <<f>> \o PreOrder(S \ {f})

\* the parent of the k-th span of the pre-order sp: the nearest earlier span
\* that contains it (0: none)
ParentOf(sp, k) ==
  LET anc == {j \in 1 .. (k - 1) :
                sp[j][1] <= sp[k][1] /\ sp[k][2] <= sp[j][2]}
  IN IF anc = {} THEN 0 ELSE CHOOSE j \in anc : \A i \in anc : i <= j

\* a file of n lines: the root spans the file, scopeSet are the multi-line
\* nodes below it, every line of stmts starts a single-line node
MakeFile(n, scopeSet, stmts, blanks) ==
  LET sp == PreOrder({<<0, n - 1>>} \cup scopeSet \cup {<<l, l>> : l \in stmts})
  IN [tree |-> [k \in 1 .. Len(sp) |->
                  [s |-> sp[k][1], e |-> sp[k][2], p |-> ParentOf(sp, k)]],
      n |-> n, blank |-> blanks]

\* the statements and blank lines of a file of n lines: a single-line node
\* on every line that is not blank; no blank line, a blank last line, or a
\* blank line 2 and a blank last line
Fillings(n) ==
  {[stmts |-> Lines(n), blank |-> {}],
   [stmts |-> Lines(n) \ {n - 1}, blank |-> {n - 1}],
   [stmts |-> Lines(n) \ {2, n - 1}, blank |-> {2, n - 1}]}

\* no node below the root starts or ends on a blank line
OffBlank(S, blanks) == \A sp \in S : sp[1] \notin blanks /\ sp[2] \notin blanks

\* the laminar sets of at most MaxScopes spans of a file of n lines
ScopeSets(n) ==
  {T \in SUBSET Spans(n) : Cardinality(T) <= MaxScopes /\ Laminar(T)}

\* the small files: every filling with every set of scopes that fits it
SmallFiles ==
  LET n == NumLines
  IN {MakeFile(n, p[2], p[1].stmts, p[1].blank) :
        p \in {q \in Fillings(n) \X ScopeSets(n) : OffBlank(q[2], q[1].blank)}}

\* the multi-line spans of the files of the child-context scenarios: blocks
\* of 5 and 6 lines below their first line, and shorter blocks inside them
BigSpans(n) == {<<1, n - 1>>, <<1, n - 2>>, <<2, 3>>, <<4, n - 2>>}

\* the files of the child-context scenarios
BigFiles ==
  LET n == BigLines
  IN {MakeFile(n, p[2], p[1].stmts, p[1].blank) :
        p \in {q \in Fillings(n) \X
                      {T \in SUBSET BigSpans(n) : Cardinality(T) <= MaxScopes} :
                 OffBlank(q[2], q[1].blank)}}

\* ------------------------------------------------------------ the options
\* the zero value of TreeContextOptions
NoOptions ==
  [color |-> FALSE, showLineNumber |-> FALSE, showLastLine |-> FALSE,
   margin |-> 0, markLOIs |-> FALSE, headerMax |-> 0, loiPad |-> 0,
   showTopOfFileParentScope |-> FALSE, parentContext |-> FALSE,
   showChildContext |-> FALSE]

\* one option set away from its zero value
SetOption(o, f) ==
  CASE f = "color" -> [o EXCEPT !.color = TRUE]
    [] f = "showLineNumber" -> [o EXCEPT !.showLineNumber = TRUE]
    [] f = "showLastLine" -> [o EXCEPT !.showLastLine = TRUE]
    [] f = "margin" -> [o EXCEPT !.margin = 1]
    [] f = "markLOIs" -> [o EXCEPT !.markLOIs = TRUE]
    [] f = "headerMax" -> [o EXCEPT !.headerMax = 2]
    [] f = "loiPad" -> [o EXCEPT !.loiPad = 1]
    [] f = "showTopOfFileParentScope" ->
         [o EXCEPT !.showTopOfFileParentScope = TRUE]
    [] f = "parentContext" -> [o EXCEPT !.parentContext = TRUE]
    [] f = "showChildContext" -> [o EXCEPT !.showChildContext = TRUE]

RECURSIVE SetOptions(_, _)
SetOptions(o, fs) ==
  IF fs = {} THEN o
  ELSE LET f == CHOOSE x \in fs : TRUE
       IN SetOptions(SetOption(o, f), fs \ {f})

\* the options that decide the show-set
SelectionOptions ==
  {"showLastLine", "margin", "headerMax", "loiPad",
   "showTopOfFileParentScope", "parentContext", "showChildContext"}

\* the option settings of the small scenarios: at most one selection option
\* away from its zero value, with and without the parent context; and the
\* parent context with the top-of-file scope and a header window
SmallOptions ==
  {SetOptions(NoOptions, fs \cup pc) :
     fs \in {x \in SUBSET SelectionOptions : Cardinality(x) <= 1},
     pc \in {{}, {"parentContext"}}}
  \cup {SetOptions(NoOptions, {"parentContext", "showTopOfFileParentScope",
                               "headerMax"})}

\* the options that decide the rendering
RenderOptions == {"color", "showLineNumber", "markLOIs"}

\* the option settings of the rendering scenarios: every rendering, with no
\* expansion, a padding or the parent context
FormatOptions ==
  {SetOptions(NoOptions, fs \cup sel) :
     fs \in SUBSET RenderOptions,
     sel \in {{}, {"loiPad"}, {"parentContext"}}}

\* the option settings of the child-context scenarios: the child context,
\* alone or with the parent context, a header window or a padding
ChildOptions ==
  {SetOptions(NoOptions, fs \cup {"showChildContext"}) :
     fs \in {{}, {"parentContext"}, {"headerMax"}, {"loiPad"}}}

\* ------------------------------------------------------------ the actions
\* the state after NewTreeContext(path, f, o): with an error there is no
\* TreeContext, no parse tree and no line
InitFor(paths, files, options) ==
  \E path \in paths, f \in files, o \in options :
    LET ix == NewTreeContext(path, f, o)
    IN /\ filename = path
       /\ err = ix.err
       /\ tree = IF ix.err = "nil" THEN f.tree ELSE <<>>
       /\ numLines = IF ix.err = "nil" THEN f.n ELSE 0
       /\ blank = IF ix.err = "nil" THEN f.blank ELSE {}
       /\ opt = o
       /\ nodes = ix.nodes
       /\ scopes = ix.scopes
       /\ header = ix.header
       /\ linesOfInterest = {}
       /\ showLines = {}
       /\ doneParentScopes = {}
       /\ outputLines = <<>>
       /\ fault = FALSE
       /\ out = <<>>
       /\ hist = [ctx |-> 0, same |-> FALSE, fmt |-> FALSE, log |-> {},
                  pre |-> {}]

\* the file name of the selection scenarios
GoFile == [base |-> "main.go", ext |-> ".go"]

Init == InitFor({GoFile}, SmallFiles, SmallOptions)

\* the line numbers a caller passes: every line of the file, one before the
\* first and one past the last
LoiRange == (-1) .. numLines

\* AddLinesOfInterest that also puts the lines in tc.showLines
AddLinesOfInterest_showing ==
  \E lineNums \in {{ln} : ln \in LoiRange} :
    /\ err = "nil" /\ ~fault
    /\ Cardinality(linesOfInterest \cup lineNums) <= MaxLoi
    /\ linesOfInterest' = linesOfInterest \cup lineNums
    /\ showLines' = showLines \cup lineNums
    /\ out' = <<>>
    /\ hist' = [hist EXCEPT !.same = @ /\ linesOfInterest' = linesOfInterest,
                            !.fmt = FALSE]
    /\ UNCHANGED <<filename, err, tree, numLines, blank, opt, nodes, scopes, header,
                   doneParentScopes, outputLines, fault>>

\* AddLinesOfInterest(lineNums)
AddLinesOfInterest ==
  \E lineNums \in {{ln} : ln \in LoiRange} :
    /\ err = "nil" /\ ~fault
    /\ Cardinality(linesOfInterest \cup lineNums) <= MaxLoi
    /\ linesOfInterest' = linesOfInterest \cup lineNums
    /\ out' = <<>>
    /\ hist' = [hist EXCEPT !.same = @ /\ linesOfInterest' = linesOfInterest,
                            !.fmt = FALSE]
    /\ UNCHANGED <<filename, err, tree, numLines, blank, opt, nodes, scopes, header,
                   showLines, doneParentScopes, outputLines, fault>>

\* AddContext()
AddContext ==
  /\ err = "nil" /\ ~fault
  /\ hist.ctx < MaxCtxCalls
  /\ \E r \in addContext([show |-> showLines, done |-> doneParentScopes],
                         linesOfInterest) :
       /\ showLines' = r.show
       /\ doneParentScopes' = r.done
       /\ fault' = r.fault
       /\ hist' = [ctx |-> hist.ctx + 1, same |-> TRUE, fmt |-> FALSE,
                   log |-> r.log, pre |-> r.pre]
  /\ out' = <<>>
  /\ UNCHANGED <<filename, err, tree, numLines, blank, opt, nodes, scopes, header,
                 linesOfInterest, outputLines>>

\* the sets of lines the patterns of the scenarios match: no line, line 1,
\* lines 1 and 3
GrepMatches == {{}, {1}, {1, 3}}

\* Grep(pat, ignoreCase): found is the set of lines the pattern matches,
\* which the call returns; with color, outputLines gets the highlighted
\* variant (1) of every line found
Grep ==
  \E found \in GrepMatches :
    /\ err = "nil" /\ ~fault
    /\ found \subseteq Lines(numLines)
    /\ outputLines' = IF opt.color
                      THEN [i \in (DOMAIN outputLines) \cup found |->
                              IF i \in found THEN 1 ELSE outputLines[i]]
                      ELSE outputLines
    /\ out' = <<>>
    /\ hist' = [hist EXCEPT !.fmt = FALSE]
    /\ UNCHANGED <<filename, err, tree, numLines, blank, opt, nodes, scopes,
                   header, linesOfInterest, showLines, doneParentScopes,
                   fault>>

\* Format() that empties the show-set it has rendered
Format_clearing ==
  /\ err = "nil" /\ ~fault
  /\ out' = FormatText(showLines, linesOfInterest, outputLines)
  /\ showLines' = {}
  /\ hist' = [hist EXCEPT !.fmt = TRUE]
  /\ UNCHANGED <<filename, err, tree, numLines, blank, opt, nodes, scopes,
                 header, linesOfInterest, doneParentScopes, outputLines,
                 fault>>

\* Format()
Format ==
  /\ err = "nil" /\ ~fault
  /\ out' = FormatText(showLines, linesOfInterest, outputLines)
  /\ hist' = [hist EXCEPT !.fmt = TRUE]
  /\ UNCHANGED <<filename, err, tree, numLines, blank, opt, nodes, scopes, header,
                 linesOfInterest, showLines, doneParentScopes, outputLines,
                 fault>>

Next == AddLinesOfInterest \/ AddContext \/ Grep \/ Format

Spec == Init /\ [][Next]_vars

\* the option settings of the configuration scenarios: the padding, the
\* margin and the header window each zero or negative, with and without the
\* parent context
NegOptions ==
  {[NoOptions EXCEPT !.loiPad = a, !.margin = b, !.headerMax = c,
                     !.parentContext = d] :
     a \in {0, -1}, b \in {0, -1}, c \in {0, -1}, d \in BOOLEAN}

\* the configuration scenarios
InitNeg == InitFor({GoFile}, SmallFiles, NegOptions)

SpecNeg == InitNeg /\ [][Next]_vars

\* the files of the rendering scenarios: one line more than the small files,
\* for a leading, an interior and a trailing run of hidden lines; at most one
\* scope below the root
FormatFiles ==
  LET n == NumLines + 1
  IN {MakeFile(n, p[2], p[1].stmts, p[1].blank) :
        p \in {q \in Fillings(n) \X {T \in ScopeSets(n) : Cardinality(T) <= 1} :
                 OffBlank(q[2], q[1].blank)}}

\* the rendering scenarios
InitFormat == InitFor({GoFile}, FormatFiles, FormatOptions)

SpecFormat == InitFormat /\ [][Next]_vars

\* the file names NewTreeContext is called with: languages with a grammar,
\* extensions of the table without one, extensions not in the table, no
\* extension, and Dockerfiles
FileNames ==
  {GoFile,
   [base |-> "script.py", ext |-> ".py"],
   [base |-> "Style.CSS", ext |-> ".CSS"],
   [base |-> "lib.c", ext |-> ".c"],
   [base |-> "data.json", ext |-> ".json"],
   [base |-> "unknown.xyz", ext |-> ".xyz"],
   [base |-> "Makefile", ext |-> ""],
   [base |-> "Dockerfile", ext |-> ""],
   [base |-> "DOCKERFILE", ext |-> ""]}

\* the files of the construction scenarios: no scope below the root
OpenFiles ==
  LET n == NumLines
  IN {MakeFile(n, {}, fl.stmts, fl.blank) : fl \in Fillings(n)}

\* the construction scenarios: every file name
InitOpen ==
  InitFor(FileNames, OpenFiles,
          {NoOptions, SetOptions(NoOptions, {"parentContext", "headerMax"})})

SpecOpen == InitOpen /\ [][Next]_vars

\* the child-context scenarios: larger files, the child context enabled
InitChild == InitFor({GoFile}, BigFiles, ChildOptions)

SpecChild == InitChild /\ [][Next]_vars

\* ------------------------------------------------------------ the claims
\* the selector state of a new TreeContext
Fresh == [show |-> {}, done |-> {}]

\* the state is the one the last AddContext call left: no line of interest
\* was added since
AfterContext == hist.ctx >= 1 /\ hist.same

\* the lines of interest that are lines of the file
InRangeLoi == linesOfInterest \cap Lines(numLines)

\* the nodes of more than one line
MultiLine == {k \in 1 .. Len(tree) : tree[k].e > tree[k].s}

\* C1: as long as AddContext was never called, whatever lines of interest
\* were added, the show-set is empty and Format returns the empty string
C1_NoContextNoText ==
  hist.ctx = 0 => (showLines = {} /\ (hist.fmt => out = <<>>))

\* C1 witness: lines of interest were added, AddContext was never called and
\* Format returned the empty string
C1_Witness ==
  hist.ctx = 0 /\ linesOfInterest # {} /\ hist.fmt /\ out = <<>>

\* C2: while the LOI set is empty, AddContext leaves the show-set empty and
\* Format returns the empty string, whatever the options
C2_EmptyLoiNoText ==
  linesOfInterest = {} => (showLines = {} /\ (hist.fmt => out = <<>>))

\* C2 witness: AddContext was called with no line of interest and with the
\* last line forced, and Format returned the empty string
C2_Witness ==
  /\ hist.ctx >= 1 /\ linesOfInterest = {} /\ opt.showLastLine
  /\ hist.fmt /\ out = <<>>

\* C3: a second AddContext call in a row, the LOI set unchanged (here a set
\* of lines of the file), leaves the show-set as the first call left it
C3_Idempotent ==
  [][(AfterContext /\ linesOfInterest \subseteq Lines(numLines)
      /\ hist'.ctx = hist.ctx + 1) => showLines' = showLines]_vars

\* C4: after AddLinesOfInterest; AddContext; Format on a new TreeContext no
\* call has panicked, and the show-set and the text are those the in-range
\* lines of interest alone give
C4_OutOfRangeIgnored ==
  (hist.ctx = 1 /\ hist.same) =>
    /\ ~fault
    /\ \E r \in addContext(Fresh, InRangeLoi) :
         /\ showLines = r.show
         /\ hist.fmt => out = FormatText(r.show, InRangeLoi, outputLines)

\* C5: after AddContext with a non-empty LOI set (here of lines of the file)
\* no one-line gap is left in the show-set, except one next to the file's
\* blank last line
C5_GapsClosed ==
  (AfterContext /\ linesOfInterest # {} /\ ~fault
     /\ linesOfInterest \subseteq Lines(numLines)) =>
    \A g \in (-2) .. (numLines + 1) :
       (g - 1 \in showLines /\ g + 1 \in showLines /\ g \notin showLines) =>
         /\ (numLines - 1) \in blank
         /\ (g = numLines - 1 \/ g + 1 = numLines - 1)

\* the options of C9: the parent context is the only expansion
ParentOnly ==
  /\ opt.parentContext /\ ~opt.showChildContext /\ ~opt.showLastLine
  /\ opt.loiPad = 0 /\ opt.margin = 0

\* C9: with the parent context alone, a scope B with no line of interest
\* inside it that is disjoint from another scope A is never shown in full
C9_SiblingBodyHidden ==
  (AfterContext /\ ParentOnly) =>
    \A a \in MultiLine, b \in MultiLine :
       (/\ (tree[a].e < tree[b].s \/ tree[b].e < tree[a].s)
        /\ linesOfInterest \cap (tree[b].s .. tree[b].e) = {})
       => \E ln \in tree[b].s .. tree[b].e : ln \notin showLines

\* C10: with the parent context and headerMax >= 1, after AddContext the
\* start line of every multi-line scope that starts after line 0 and contains
\* a line of interest is shown
C10_ScopeStartsShown ==
  (AfterContext /\ opt.parentContext /\ opt.headerMax >= 1) =>
    \A i \in linesOfInterest, k \in MultiLine :
       (tree[k].s > 0 /\ tree[k].s <= i /\ i <= tree[k].e)
       => tree[k].s \in showLines

\* C10 witness: a line of interest two scopes deep, below both scope starts,
\* and both starts are shown
C10_Witness ==
  /\ AfterContext /\ opt.parentContext /\ opt.headerMax >= 1
  /\ \E i \in linesOfInterest, k \in MultiLine, j \in MultiLine :
       /\ 0 < tree[k].s /\ tree[k].s < tree[j].s /\ tree[j].s < i
       /\ i <= tree[j].e /\ tree[j].e <= tree[k].e
       /\ tree[k].s \in showLines /\ tree[j].s \in showLines

\* the lines on which a node starts
Starts == {tree[k].s : k \in 1 .. Len(tree)}

\* the last line of the block that starts on line i: the end of the longest
\* node starting there
BlockEnd(i) ==
  LET ends == {tree[k].e : k \in {j \in 1 .. Len(tree) : tree[j].s = i}}
  IN CHOOSE e \in ends : \A f \in ends : f <= e

\* C6: with the child context, after AddContext every line of a block of
\* size < 5 that starts on a line of interest is shown
C6_SmallBlockShown ==
  (AfterContext /\ opt.showChildContext) =>
    \A i \in linesOfInterest \cap Starts :
       BlockEnd(i) - i < 5 => (i .. BlockEnd(i)) \subseteq showLines

\* C6 witness: the child context alone, one line of interest that starts a
\* block of 2 to 5 lines, and the whole block is shown
C6_Witness ==
  /\ AfterContext /\ opt.showChildContext /\ ~opt.parentContext
  /\ opt.loiPad = 0
  /\ \E i \in Starts :
       /\ linesOfInterest = {i}
       /\ BlockEnd(i) - i >= 1 /\ BlockEnd(i) - i < 5
       /\ (i .. BlockEnd(i)) \subseteq showLines

\* C7: an addChildContext call on a block of size >= 5 shows at most its
\* budget of new lines
C7_ChildBudget ==
  AfterContext =>
    \A c \in hist.log :
       (c[1] \in Starts /\ BlockEnd(c[1]) - c[1] >= 5)
       => c[3] - c[2] <= computedMax(BlockEnd(c[1]) - c[1])

\* the nodes below the block that starts on line i that start on a later line
LaterDescendants(i) ==
  LET k == CHOOSE j \in 1 .. Len(tree) :
             tree[j].s = i /\ tree[j].e = BlockEnd(i)
      sub == findAllChildren(k)
  IN {sub[p] : p \in 1 .. Len(sub)} \cap {j \in 1 .. Len(tree) : tree[j].s > i}

\* C8: with the parent and the child context, after AddContext a line of
\* interest that starts a block of size >= 5 with a descendant on a later
\* line is shown together with a line of the block below it
C8_LargeBlockSampled ==
  (AfterContext /\ opt.parentContext /\ opt.showChildContext) =>
    \A i \in linesOfInterest \cap Starts :
       (BlockEnd(i) - i >= 5 /\ LaterDescendants(i) # {})
       => /\ i \in showLines
          /\ \E ln \in (i + 1) .. BlockEnd(i) : ln \in showLines

\* C8 witness: such a block with its first line and a later line shown and
\* another of its lines hidden
C8_Witness ==
  /\ AfterContext /\ opt.parentContext /\ opt.showChildContext
  /\ \E i \in linesOfInterest \cap Starts :
       /\ BlockEnd(i) - i >= 5 /\ LaterDescendants(i) # {}
       /\ i \in showLines
       /\ \E ln \in (i + 1) .. BlockEnd(i) : ln \in showLines
       /\ \E ln \in (i + 1) .. BlockEnd(i) : ln \notin showLines

\* the text Format returned without the color reset it may start with
Rendered ==
  IF Len(out) > 0 /\ out[1].k = "reset" THEN Tail(out) ELSE out

\* Format was the last call and the show-set it rendered is not empty
Formatted == hist.fmt /\ showLines # {}

\* C11: when the show-set is not empty, the text starts with the color reset
\* exactly when color is on, and what follows starts with a marker when line
\* 0 is not shown and with line 0 when it is
C11_LeadingMarker ==
  Formatted =>
    /\ Len(out) >= 1 /\ (out[1].k = "reset" <=> opt.color)
    /\ Len(Rendered) >= 1
    /\ (0 \notin showLines => Rendered[1].k = "marker")
    /\ (0 \in showLines => (Rendered[1].k = "line" /\ Rendered[1].ln = 0))

\* C11 witness: color is on, line 0 is hidden and a marker follows the reset
C11_Witness ==
  /\ Formatted /\ opt.color /\ 0 \notin showLines
  /\ Len(out) >= 3 /\ out[1].k = "reset" /\ out[2].k = "marker"
  /\ out[3].k = "line"

\* the first lines of the maximal runs of hidden lines
HiddenRunStarts ==
  {i \in Lines(numLines) : i \notin showLines /\ (i = 0 \/ (i - 1) \in showLines)}

\* the places of the text: the shown lines and the runs of hidden lines
Slots == (showLines \cap Lines(numLines)) \cup HiddenRunStarts

\* C12: when the show-set is not empty, the text is, in line order, every
\* shown line and one marker for every maximal run of hidden lines
C12_OneMarkerPerRun ==
  Formatted =>
    LET order == mapKeysSorted(Slots)
    IN /\ Len(Rendered) = Len(order)
       /\ \A p \in 1 .. Len(order) :
            IF order[p] \in showLines
            THEN Rendered[p].k = "line" /\ Rendered[p].ln = order[p]
            ELSE Rendered[p].k = "marker"

\* C12 witness: a leading, an interior and a trailing run of hidden lines,
\* the interior one of two lines or more, and three markers in the text
C12_Witness ==
  /\ Formatted
  /\ Cardinality(HiddenRunStarts) = 3
  /\ 0 \in HiddenRunStarts /\ (numLines - 1) \notin showLines
  /\ \E i \in HiddenRunStarts : i > 0 /\ (i + 1) \notin showLines
                                /\ (i + 1) < numLines - 1
  /\ Cardinality({p \in 1 .. Len(out) : out[p].k = "marker"}) = 3

\* C13: every marker of the text is "...:..." with line numbers and ":..."
\* without (":" standing for the vertical ellipsis)
C13_MarkerText ==
  hist.fmt =>
    \A p \in 1 .. Len(out) :
       out[p].k = "marker" =>
         out[p].text = IF opt.showLineNumber THEN "...:..." ELSE ":..."

\* C14: after AddContext with a non-empty LOI set every line of interest is
\* in the show-set, and the text Format returns holds every line of interest
\* that is a line of the file exactly once, the lines in ascending order
C14_LoiShown ==
  (AfterContext /\ linesOfInterest # {}) =>
    /\ linesOfInterest \subseteq showLines
    /\ hist.fmt =>
         /\ \A i \in InRangeLoi :
              Cardinality({p \in 1 .. Len(out) :
                             out[p].k = "line" /\ out[p].ln = i}) = 1
         /\ \A p \in 1 .. Len(out), q \in 1 .. Len(out) :
              (p < q /\ out[p].k = "line" /\ out[q].k = "line")
              => out[p].ln < out[q].ln

\* C14 witness: two lines of interest apart from each other, both in the
\* text, with a line that is no line of interest shown between or around them
C14_Witness ==
  /\ AfterContext /\ hist.fmt
  /\ \E i \in InRangeLoi, j \in InRangeLoi :
       /\ j > i + 2
       /\ \E p \in 1 .. Len(out), q \in 1 .. Len(out) :
            p < q /\ out[p].k = "line" /\ out[p].ln = i
                  /\ out[q].k = "line" /\ out[q].ln = j
  /\ \E p \in 1 .. Len(out) :
       out[p].k = "line" /\ out[p].ln \notin linesOfInterest

\* C15: the show-set the first AddContext call leaves is the same whatever
\* order the lines of interest and the scope starts are iterated in and
\* whatever order the sort leaves descendants of equal size in
C15_OrderIndependent ==
  (hist.ctx = 1 /\ hist.same) =>
    \A r \in addContext(Fresh, linesOfInterest) :
       r.fault = fault /\ r.show = showLines

\* the file names of an unrecognized or unsupported type: an extension of
\* the table without a grammar, an extension not in the table, no
\* extension, a Dockerfile
UnsupportedNames ==
  {"lib.c", "data.json", "unknown.xyz", "Makefile", "Dockerfile", "DOCKERFILE"}

\* C16: for a file of an unrecognized or unsupported type NewTreeContext
\* returns an error and no TreeContext: no table was built, and there is no
\* selector to add lines to or to format
C16_UnsupportedRejected ==
  filename.base \in UnsupportedNames =>
    /\ err # "nil"
    /\ nodes = <<>> /\ scopes = <<>> /\ header = <<>> /\ tree = <<>>
    /\ linesOfInterest = {} /\ showLines = {} /\ hist.ctx = 0 /\ ~hist.fmt

\* C16 witness: NewTreeContext returned its own error for a Dockerfile, whose
\* language lookup gives no error
C16_Witness ==
  /\ filename.base = "Dockerfile"
  /\ GetLanguageFromFileName(filename).err = "nil"
  /\ err = "unrecognized or unsupported file type"
  /\ nodes = <<>>

\* the lines C17 allows with the parent context alone: the lines of interest,
\* the first headerMax lines of every scope that encloses one, and the
\* one-line gaps between such lines
SignatureLines ==
  linesOfInterest
  \cup {ln \in Lines(numLines) :
          \E i \in InRangeLoi : \E s \in scopes[i] :
             s <= ln /\ ln < s + opt.headerMax}

\* C17: with the parent context alone, every shown line is a line of
\* interest, a header line of a scope that encloses one, or a one-line gap
\* between two such lines: no more of an ancestor's body is revealed
C17_OnlySignatures ==
  (AfterContext /\ ParentOnly) =>
    \A ln \in showLines :
       \/ ln \in SignatureLines
       \/ ((ln - 1) \in SignatureLines /\ (ln + 1) \in SignatureLines)

Headed(s) == {k \in 1 .. Len(tree) : tree[k].s = s /\ tree[k].e > tree[k].s}

\* C19: the header window of a line s on which a node of positive size
\* starts is (s, h) with h - s <= headerMax: h is s + headerMax when the
\* last such node in pre-order is larger than headerMax, else its end line
C19_HeaderWindow ==
  err = "nil" =>
    \A s \in Lines(numLines) :
       Headed(s) # {} =>
         LET k == CHOOSE j \in Headed(s) : \A i \in Headed(s) : i <= j
             size == tree[k].e - tree[k].s
         IN /\ header[s][1] = s
            /\ header[s][2] - s <= opt.headerMax
            /\ header[s][2] = IF size > opt.headerMax
                              THEN s + opt.headerMax ELSE tree[k].e

\* C19 witness: two nodes of positive size start on one line after line 0,
\* the inner one within headerMax and the outer one larger, and the window
\* ends on the inner node's end line
C19_Witness ==
  /\ err = "nil" /\ opt.headerMax = 2
  /\ \E s \in Lines(numLines) : \E k \in Headed(s), j \in Headed(s) :
       /\ s > 0 /\ k < j
       /\ tree[k].e - s > opt.headerMax /\ tree[j].e - s <= opt.headerMax
       /\ header[s] = <<s, tree[j].e>>

\* C20: the header window of a line i on which no node of positive size
\* starts is (i, i + 1)
C20_DefaultWindow ==
  err = "nil" =>
    \A i \in Lines(numLines) : Headed(i) = {} => header[i] = <<i, i + 1>>

\* C21: s is a scope of line i exactly when a node of positive size starts
\* on s and spans i; nodes of size 0 contribute nothing; a scope of line i
\* starts on i or before it
C21_ScopeMembership ==
  err = "nil" =>
    \A i \in Lines(numLines), s \in Lines(numLines) :
       /\ s \in scopes[i] <=>
            \E k \in Headed(s) : tree[k].s <= i /\ i <= tree[k].e
       /\ s \in scopes[i] => s <= i

\* the nodes that start on line i or before it and span line i
Covering(i) == {k \in 1 .. Len(tree) : tree[k].s <= i /\ i <= tree[k].e}

C23_LargestFirst ==
  err = "nil" =>
    \A i \in Lines(numLines), tie \in TieOrders :
       LET sorted == sortNodesBySize(gatherChildren(i, 1), tie)
       IN \A p \in 1 .. Len(sorted), q \in 1 .. Len(sorted) :
            p < q => (tree[sorted[p]].e - tree[sorted[p]].s
                      >= tree[sorted[q]].e - tree[sorted[q]].s)

BottomScopeLines ==
  UNION {scopeLines(lineNum) : lineNum \in scopes[numLines - 1]}

\* C25: with the last line enabled, after AddContext with a non-empty LOI set
\* the last line of the file is shown and its parent scopes are expanded,
\* whether or not it is a line of interest and whether or not the parent
\* context is enabled
C25_LastLineShown ==
  (AfterContext /\ opt.showLastLine /\ linesOfInterest # {}) =>
    /\ (numLines - 1) \in showLines
    /\ (numLines - 1) \in doneParentScopes
    /\ BottomScopeLines \subseteq showLines

\* C25 witness: the parent context is off, the last line is no line of
\* interest, and the start of a scope that ends on the last line is shown
\* though it is no line of interest either
C25_Witness ==
  /\ AfterContext /\ opt.showLastLine /\ ~opt.parentContext
  /\ linesOfInterest # {} /\ (numLines - 1) \notin linesOfInterest
  /\ (numLines - 1) \in showLines
  /\ \E k \in MultiLine :
       /\ tree[k].s > 1 /\ tree[k].e = numLines - 1
       /\ tree[k].s \in showLines
       /\ \A i \in linesOfInterest : i < tree[k].s - 1

\* C26: with a padding p > 0, after AddContext every line of the file within
\* p of a line of interest is shown, and the padding phase adds no line
\* index outside the file, whatever is shown at its start
C26_PaddingShown ==
  (AfterContext /\ opt.loiPad > 0 /\ linesOfInterest # {}) =>
    /\ \A k \in Lines(numLines), l \in linesOfInterest :
         (k - l <= opt.loiPad /\ l - k <= opt.loiPad) => k \in showLines
    /\ padLines(showLines \cup linesOfInterest) \subseteq Lines(numLines)

\* C26 witness: a line of interest on the last line and one past the end of
\* the file; the lines before them are shown, no line after the file is
\* added
C26_Witness ==
  /\ AfterContext /\ opt.loiPad = 1 /\ ~opt.parentContext
  /\ linesOfInterest = {numLines - 1, numLines}
  /\ showLines = {numLines - 2, numLines - 1, numLines}

\* what addParentScopes(i) adds when every header window is empty: for
\* every scope of line i that a node of positive size starts after line 0,
\* the lines of its boundary
ZeroParentLines(i) ==
  UNION {LET b == getScopeBoundry(s)
         IN IF s = 0 \/ Headed(s) = {} \/ b.end = s THEN {}
            ELSE {ln \in b.start .. b.end : ln < numLines} :
           s \in scopes[i]}

\* the show-set AddContext gives closeSmallGaps with a padding of 0, a
\* margin of 0 and a headerMax of 0: the lines of interest and, with the
\* parent context, the boundaries of their scopes
ZeroConfigLines ==
  linesOfInterest
  \cup (IF opt.parentContext
        THEN UNION {ZeroParentLines(i) : i \in InRangeLoi} ELSE {})

\* C27: with the padding, the margin and headerMax each zero or negative,
\* the first AddContext call gives the show-set that a padding of 0, a
\* margin of 0 and empty header windows give; a negative headerMax makes
\* every header window empty, and no call fails on lines of interest that
\* are lines of the file
C27_NegativeAsZero ==
  (opt.loiPad <= 0 /\ opt.margin <= 0 /\ opt.headerMax <= 0
     /\ ~opt.showLastLine /\ ~opt.showChildContext) =>
    /\ opt.headerMax < 0 =>
         \A i \in Lines(numLines) :
            {ln \in Lines(numLines) :
               header[i][1] <= ln /\ ln < header[i][2]} = {}
    /\ (hist.ctx = 1 /\ hist.same /\ linesOfInterest # {}) =>
         LET r == closeSmallGaps(ZeroConfigLines)
         IN /\ fault = r.fault
            /\ showLines = IF r.fault THEN ZeroConfigLines ELSE r.show
            /\ linesOfInterest \subseteq Lines(numLines) => ~fault

\* C27 witness: the padding, the margin and headerMax are all negative, the
\* parent context is on, and AddContext showed the scope around the line of
\* interest and nothing before it
C27_Witness ==
  /\ opt.loiPad < 0 /\ opt.margin < 0 /\ opt.headerMax < 0
  /\ opt.parentContext /\ hist.ctx = 1 /\ hist.same /\ ~fault
  /\ \E k \in MultiLine :
       /\ tree[k].s > 1 /\ linesOfInterest = {tree[k].e}
       /\ showLines = tree[k].s .. tree[k].e

\* C28: no call removes a line from the LOI set or from the show-set; Format
\* changes neither set, and a Format call right after a Format call returns
\* the same text
C28_SetsOnlyGrow ==
  [][/\ linesOfInterest \subseteq linesOfInterest'
     /\ showLines \subseteq showLines'
     /\ hist'.fmt => (/\ linesOfInterest' = linesOfInterest
                      /\ showLines' = showLines)
     /\ (hist.fmt /\ hist'.fmt) => out' = out]_vars

\* C28 witness: after two AddContext calls, a Grep with color and a Format,
\* both sets hold two lines or more and the text has a highlighted line
C28_Witness ==
  /\ hist.ctx = 2 /\ hist.fmt /\ opt.color
  /\ Cardinality(linesOfInterest) = 2 /\ Cardinality(showLines) >= 2
  /\ \E p \in 1 .. Len(out) : out[p].k = "line" /\ out[p].hl = 1

\* the selector state of the TreeContext
Selector == [show |-> showLines, done |-> doneParentScopes]

\* C29: addParentScopes(i) changes nothing when i is out of bounds or was
\* processed before; else it marks i as processed; it removes nothing from
\* the processed set or the show-set, and processing a line once more adds
\* nothing
C29_ExpandedOnce ==
  err = "nil" =>
    \A i \in LoiRange :
       LET r == addParentScopes(Selector, i)
       IN /\ (i \notin Lines(numLines) \/ i \in doneParentScopes)
             => r = Selector
          /\ i \in Lines(numLines) => i \in r.done
          /\ doneParentScopes \subseteq r.done /\ showLines \subseteq r.show
          /\ addParentScopes(r, i) = r

\* C29 witness: after two AddContext calls with the parent context both
\* lines of interest are processed, and lines of their scopes are shown
C29_Witness ==
  /\ hist.ctx = 2 /\ AfterContext /\ opt.parentContext /\ ~fault
  /\ Cardinality(doneParentScopes) = 2
  /\ doneParentScopes = linesOfInterest
  /\ \E ln \in showLines : ln \notin linesOfInterest

\* C30: as long as every line of interest is a line of the file, every
\* shown line is a line of the file
C30_ShowInRange ==
  linesOfInterest \subseteq Lines(numLines)
  => showLines \subseteq Lines(numLines)

\* C30 witness: lines of interest on the first and the last line, padded:
\* the lines next to them are shown, no line outside the file is
C30_Witness ==
  /\ AfterContext /\ opt.loiPad = 1 /\ ~opt.parentContext
  /\ linesOfInterest = {0, numLines - 1}
  /\ {0, 1, numLines - 2, numLines - 1} \subseteq showLines
  /\ showLines \subseteq Lines(numLines)

====
